---- MODULE Spec2Model ----
(***************************************************************************)
(* A model of WebScraper (src/web_scraper.py): scrape_all_urls submits one *)
(* scrape_url call per URL to a ThreadPoolExecutor, collects the futures   *)
(* with as_completed, and then saves the results and writes the report.    *)
(* One unit = one entry of self.urls, named by its index in the list.      *)
(***************************************************************************)
EXTENDS Integers, Sequences, FiniteSets, TLC

\* ------------------------------------------------------------------ bounds
MaxUrls == 2            \* len(self.urls) ranges over 0..MaxUrls
MaxRuns == 2            \* scrape_all_urls is called at most MaxRuns times on an instance
MaxWorkers == 2         \* settings['concurrent_requests'] ranges over 0..MaxWorkers

\* ------------------------------------------- defaults of self.settings
DefaultMaxRetries == 3  \* 'max_retries': 3; the model configures 1..3
DefaultDelay == 2       \* 'delay_between_requests': 2; the model configures 0 or 2

VARIABLES
    settings,     \* self.settings
    urls,         \* self.urls: urls[u] tells whether the url of unit u is well-formed
    results,      \* self.results
    failed_urls,  \* self.failed_urls
    pc,           \* pc[u]: where the scrape_url call of unit u stands
    attempt,      \* attempt[u]: the loop variable of scrape_url (0-indexed)
    e,            \* e[u]: the exception bound in the handler of scrape_url
    timer,        \* timer[u]: time left of the time.sleep of unit u
    future,       \* future[u]: state / result of the future of unit u
    main,         \* where scrape_all_urls (the calling thread) stands
    preDone,      \* futures already finished when as_completed was entered
    waiterQ,      \* futures finished since, in completion order
    yielded,      \* futures as_completed has yielded
    mtimer,       \* time left of the time.sleep of the calling thread
    report,       \* the report written by generate_report (<<>>: none yet)
    sinceIssue,   \* time since the last session.get was issued (capped), -1: none yet
    tries,        \* tries[u]: the session.get calls unit u has issued
    fails,        \* fails[u]: the attempts of unit u that ended in the handler
    last,         \* last[u]: what the latest attempt of unit u met (<<>>: nothing yet)
    sleeps,       \* sleeps[u]: the backoff sleeps unit u took, in order
    completed,    \* the units whose scrape_url call has ended, in that order
    run           \* the calls of scrape_all_urls made on this instance so far

vars == <<settings, urls, results, failed_urls, pc, attempt, e, timer, future,
          main, preDone, waiterQ, yielded, mtimer, report, sinceIssue,
          tries, fails, last, sleeps, completed, run>>

Units == 1..MaxUrls

\* What one attempt can meet: session.get raises a transport-level
\* RequestException; or a response arrives with a status code, after which
\* save_html / save_text may raise an exception that is no RequestException.
Env ==
    { [transport |-> TRUE,  status |-> 0,   saveFails |-> FALSE, invalid |-> FALSE],
      [transport |-> FALSE, status |-> 200, saveFails |-> FALSE, invalid |-> FALSE],
      [transport |-> FALSE, status |-> 404, saveFails |-> FALSE, invalid |-> FALSE],
      [transport |-> FALSE, status |-> 200, saveFails |-> TRUE,  invalid |-> FALSE] }

\* What every attempt for a malformed url meets: session.get raises
\* MissingSchema / InvalidURL (RequestExceptions) before any network I/O.
InvalidUrl == [transport |-> TRUE, status |-> 0, saveFails |-> FALSE, invalid |-> TRUE]

\* What an attempt of unit u can meet.
Meets(u) == IF urls[u] = "malformed" THEN {InvalidUrl} ELSE Env

RECURSIVE Pow2(_)
Pow2(k) == IF k <= 0 THEN 1 ELSE 2 * Pow2(k - 1)

\* Variant: no call of raise_for_status, every response passes.
raise_for_status_never(status) == FALSE

\* response.raise_for_status(): HTTPError (a RequestException) for 4xx / 5xx.
raise_for_status(status) == status >= 400

\* The exception, if any, one attempt of scrape_url ends with:
\* "RequestException" is caught by the handler, "Exception" leaves scrape_url.
Raised(env) ==
    IF env.transport THEN "RequestException"
    ELSE IF raise_for_status(env.status) THEN "RequestException"
    ELSE IF env.saveFails THEN "Exception"
    ELSE "none"

\* str(e) of the exception one attempt ends with.
ErrorOf(env) ==
    IF env.invalid THEN "invalid_url"
    ELSE IF env.transport THEN "timeout"
    ELSE IF raise_for_status(env.status) THEN "http_error"
    ELSE "os_error"

\* Variant: time.sleep(2 * attempt).
BackoffLinear(a) == 2 * a

\* time.sleep(2 ** attempt)
Backoff(a) == Pow2(a)

\* Variant: the last attempt tested as attempt == max_retries - 2.
LastAttemptEarly(a) == a = settings.max_retries - 2

\* Variant: the last attempt tested as attempt == max_retries.
LastAttemptOffByOne(a) == a = settings.max_retries

\* attempt == self.settings['max_retries'] - 1
LastAttempt(a) == a = settings.max_retries - 1

Done(u) == future[u].state = "FINISHED"
\* Variant: a worker thread counted as free while its unit sleeps or records.
RunningOnlyIO == { u \in Units : pc[u] = "get" }

\* Units inside scrape_url: each holds one pool thread until scrape_url returns.
Running == { u \in Units : pc[u] \in {"get", "record", "sleep"} }
InIO == { u \in Units : pc[u] = "get" }

\* self.results = [], self.failed_urls = [], and nothing started.
InitRest ==
    /\ results = <<>>
    /\ failed_urls = <<>>
    /\ pc = [u \in Units |-> "unsubmitted"]
    /\ attempt = [u \in Units |-> 0]
    /\ e = [u \in Units |-> "none"]
    /\ timer = [u \in Units |-> 0]
    /\ future = [u \in Units |-> [state |-> "NONE", result |-> "none"]]
    /\ main = "submit"
    /\ preDone = {}
    /\ waiterQ = <<>>
    /\ yielded = {}
    /\ mtimer = 0
    /\ report = <<>>
    /\ sinceIssue = -1
    /\ tries = [u \in Units |-> 0]
    /\ fails = [u \in Units |-> 0]
    /\ last = [u \in Units |-> <<>>]
    /\ sleeps = [u \in Units |-> <<>>]
    /\ completed = <<>>
    /\ run = 1

\* A scraper constructed with well-formed urls.
Init ==
    /\ settings \in [max_retries : 1..DefaultMaxRetries,
                     delay_between_requests : {0, DefaultDelay},
                     concurrent_requests : 0..MaxWorkers]
    /\ \E n \in 0..MaxUrls : urls = [i \in 1..n |-> "wellformed"]
    /\ InitRest

\* A scraper constructed with a list that holds a malformed url.
InitMalformed ==
    /\ settings \in [max_retries : 1..DefaultMaxRetries,
                     delay_between_requests : {0, DefaultDelay},
                     concurrent_requests : 0..MaxWorkers]
    /\ \E n \in 1..MaxUrls :
          /\ urls \in [1..n -> {"wellformed", "malformed"}]
          /\ \E i \in 1..n : urls[i] = "malformed"
    /\ InitRest

\* The future of unit u finishes: as_completed's waiter, once installed,
\* receives it in completion order.
Finish(u, res) ==
    /\ future' = [future EXCEPT ![u] = [state |-> "FINISHED", result |-> res]]
    /\ waiterQ' = IF main \in {"submit"} THEN waiterQ ELSE Append(waiterQ, u)
    /\ completed' = Append(completed, u)

\* Variant: a pool constructor that accepts any max_workers.
PoolCreatedAlways == TRUE

\* ThreadPoolExecutor(max_workers=...) accepts max_workers > 0 only.
PoolCreated == settings.concurrent_requests > 0

\* ThreadPoolExecutor(max_workers=...) raises ValueError for max_workers <= 0:
\* the exception leaves scrape_all_urls before anything is submitted.
PoolRejected ==
    /\ main = "submit"
    /\ ~PoolCreated
    /\ main' = "raised"
    /\ UNCHANGED <<run, settings, urls, results, failed_urls, pc, attempt, e, timer,
                   future, preDone, waiterQ, yielded, mtimer, report, sinceIssue,
                   tries, fails, last, sleeps,
                   completed>>

\* Variant: a submission loop that goes over self.urls again.
NotYetSubmittedOrReturned(u) == pc[u] \in {"unsubmitted", "returned"}

\* `for url in self.urls` of the dict comprehension: one pass over the list.
NotYetSubmitted(u) == pc[u] = "unsubmitted"

\* executor.submit(self.scrape_url, url) for the next url of self.urls.
Submit ==
    /\ main = "submit"
    /\ PoolCreated
    /\ \E u \in 1..Len(urls) :
        /\ NotYetSubmitted(u)
        /\ \A v \in 1..(u - 1) : pc[v] # "unsubmitted"
        /\ pc' = [pc EXCEPT ![u] = "queued"]
        /\ future' = [future EXCEPT ![u] = [state |-> "PENDING", result |-> "none"]]
    /\ UNCHANGED <<run, settings, urls, results, failed_urls, attempt, e, timer, main,
                   preDone, waiterQ, yielded, mtimer, report, sinceIssue,
                   tries, fails, last, sleeps,
                   completed>>

\* Variant: a pool that hands out no work while the collecting loop sleeps.
ThreadFreeAfterDelay == Cardinality(Running) < settings.concurrent_requests /\ main # "delay"

\* Variant: a pool that runs one call more than max_workers.
ThreadFreeOffByOne == Cardinality(Running) <= settings.concurrent_requests

\* ThreadPoolExecutor(max_workers=...): a pool thread is free to take a work
\* item while fewer than max_workers of them are inside a scrape_url call.
ThreadFree == Cardinality(Running) < settings.concurrent_requests

\* A pool thread takes the oldest queued work item and enters scrape_url:
\* the first session.get is issued.
Start(u) ==
    /\ pc[u] = "queued"
    /\ \A v \in 1..(u - 1) : pc[v] # "queued"
    /\ ThreadFree
    /\ pc' = [pc EXCEPT ![u] = "get"]
    /\ attempt' = [attempt EXCEPT ![u] = 0]
    /\ future' = [future EXCEPT ![u] = [state |-> "RUNNING", result |-> "none"]]
    /\ sinceIssue' = 0
    /\ tries' = [tries EXCEPT ![u] = @ + 1]
    /\ UNCHANGED <<run, settings, urls, results, failed_urls, e, timer, main,
                   preDone, waiterQ, yielded, mtimer, report, fails, last, sleeps,
                   completed>>

\* Variant: no return after a good attempt, the loop goes on.
OnSuccessContinue(u, env) ==
    /\ pc' = [pc EXCEPT ![u] = "sleep"]
    /\ UNCHANGED <<e, timer, sleeps, fails, future, waiterQ, completed>>

\* return data (line 101): the attempt met no exception.
OnSuccess(u, env) ==
    /\ Finish(u, [kind |-> "data", status_code |-> env.status])
    /\ pc' = [pc EXCEPT ![u] = "returned"]
    /\ UNCHANGED <<e, timer, sleeps, fails>>

\* An exception that is no RequestException leaves scrape_url: the future
\* finishes with the exception.
OnException(u, env) ==
    /\ Finish(u, [kind |-> "exception", error |-> ErrorOf(env)])
    /\ pc' = [pc EXCEPT ![u] = "returned"]
    /\ UNCHANGED <<e, timer, sleeps, fails>>

\* except requests.RequestException as e (lines 103-108): on the last
\* attempt go on to record the failure, otherwise time.sleep(2 ** attempt).
OnRequestException(u, env) ==
    /\ e' = [e EXCEPT ![u] = ErrorOf(env)]
    /\ fails' = [fails EXCEPT ![u] = @ + 1]
    /\ IF LastAttempt(attempt[u])
       THEN /\ pc' = [pc EXCEPT ![u] = "record"]
            /\ UNCHANGED <<timer, sleeps>>
       ELSE /\ pc' = [pc EXCEPT ![u] = "sleep"]
            /\ timer' = [timer EXCEPT ![u] = Backoff(attempt[u])]
            /\ sleeps' = [sleeps EXCEPT ![u] = Append(@, Backoff(attempt[u]))]
    /\ UNCHANGED <<future, waiterQ, completed>>

\* One attempt of scrape_url ends (lines 71-108).
Respond(u, env) ==
    /\ pc[u] = "get"
    /\ env \in Meets(u)
    /\ last' = [last EXCEPT ![u] = env]
    /\ CASE Raised(env) = "none" -> OnSuccess(u, env)
         [] Raised(env) = "Exception" -> OnException(u, env)
         [] Raised(env) = "RequestException" -> OnRequestException(u, env)
    /\ UNCHANGED <<run, settings, urls, results, failed_urls, attempt, main,
                   preDone, yielded, mtimer, report, sinceIssue, tries>>

\* self.failed_urls.append({'url': url, 'error': str(e)}); return None
Record(u) ==
    /\ pc[u] = "record"
    /\ failed_urls' = Append(failed_urls, [url |-> u, error |-> e[u]])
    /\ Finish(u, [kind |-> "None"])
    /\ pc' = [pc EXCEPT ![u] = "returned"]
    /\ e' = [e EXCEPT ![u] = "none"]
    /\ UNCHANGED <<run, settings, urls, results, attempt, timer, main, preDone,
                   yielded, mtimer, report, sinceIssue, tries, fails, last, sleeps>>

\* time.sleep(2 ** attempt) returns: the for loop (line 67) takes its next
\* value and issues the next session.get, or is exhausted and scrape_url
\* ends without a return statement.
Wake(u) ==
    /\ pc[u] = "sleep"
    /\ timer[u] = 0
    /\ e' = [e EXCEPT ![u] = "none"]
    /\ IF attempt[u] + 1 < settings.max_retries
       THEN /\ attempt' = [attempt EXCEPT ![u] = @ + 1]
            /\ pc' = [pc EXCEPT ![u] = "get"]
            /\ last' = [last EXCEPT ![u] = <<>>]
            /\ sinceIssue' = 0
            /\ tries' = [tries EXCEPT ![u] = @ + 1]
            /\ UNCHANGED <<future, waiterQ, completed>>
       ELSE /\ Finish(u, [kind |-> "None"])
            /\ pc' = [pc EXCEPT ![u] = "returned"]
            /\ UNCHANGED <<attempt, last, sinceIssue, tries>>
    /\ UNCHANGED <<run, settings, urls, results, failed_urls, timer, main,
                   preDone, yielded, mtimer, report, fails, sleeps>>

\* concurrent.futures.as_completed(future_to_url) is entered once every url
\* is submitted: the futures already finished are set aside.
AsCompleted ==
    /\ main = "submit"
    /\ PoolCreated
    /\ \A u \in 1..Len(urls) : pc[u] # "unsubmitted"
    /\ preDone' = { u \in 1..Len(urls) : Done(u) }
    /\ main' = "wait"
    /\ UNCHANGED <<run, settings, urls, results, failed_urls, pc, attempt, e, timer,
                   future, waiterQ, yielded, mtimer, report, sinceIssue,
                   tries, fails, last, sleeps,
                   completed>>

\* Variant: future.result() outside any try, the exception leaves the loop.
OnFutureNoCatch(u) ==
    CASE future[u].result.kind = "data" ->
           /\ results' = Append(results, [url |-> u,
                                status_code |-> future[u].result.status_code])
           /\ mtimer' = settings.delay_between_requests
           /\ main' = "delay"
           /\ UNCHANGED failed_urls
      [] future[u].result.kind = "None" ->
           /\ UNCHANGED <<results, failed_urls, mtimer, main>>
      [] future[u].result.kind = "exception" ->
           /\ main' = "raised"
           /\ UNCHANGED <<results, failed_urls, mtimer>>

\* The body of the as_completed loop (lines 143-151) for the future of u.
OnFuture(u) ==
    CASE future[u].result.kind = "data" ->
           /\ results' = Append(results, [url |-> u,
                                status_code |-> future[u].result.status_code])
           /\ mtimer' = settings.delay_between_requests
           /\ main' = "delay"
           /\ UNCHANGED failed_urls
      [] future[u].result.kind = "None" ->
           /\ UNCHANGED <<results, failed_urls, mtimer, main>>
      [] future[u].result.kind = "exception" ->
           /\ failed_urls' = Append(failed_urls, [url |-> u,
                                    error |-> future[u].result.error])
           /\ UNCHANGED <<results, mtimer, main>>

\* Variant: as_completed yields any finished future.
YieldsAny(u) == \E i \in 1..Len(waiterQ) : waiterQ[i] = u

\* as_completed takes the finished futures in the order they were appended
\* to the waiter's list.
YieldsNext(u) == u = Head(waiterQ)

\* One round of the as_completed loop (lines 142-151). as_completed yields
\* a future: first those finished at entry, in any order, then the others in
\* completion order; the loop body handles its result.
Collect(u) ==
    /\ main = "wait"
    /\ u \notin yielded
    /\ \/ u \in preDone
       \/ /\ preDone \subseteq yielded
          /\ waiterQ # <<>>
          /\ YieldsNext(u)
    /\ waiterQ' = SelectSeq(waiterQ, LAMBDA v : v # u)
    /\ yielded' = yielded \cup {u}
    /\ OnFuture(u)
    /\ UNCHANGED <<run, settings, urls, pc, attempt, e, timer, future, preDone,
                   report, sinceIssue, tries, fails, last, sleeps,
                   completed>>

\* time.sleep(self.settings['delay_between_requests']) returns.
DelayDone ==
    /\ main = "delay"
    /\ mtimer = 0
    /\ main' = "wait"
    /\ UNCHANGED <<run, settings, urls, results, failed_urls, pc, attempt, e, timer,
                   future, preDone, waiterQ, yielded, mtimer, report,
                   sinceIssue, tries, fails, last, sleeps,
                   completed>>

\* Variant: the loop left after its first round.
LoopDoneEarly == yielded # {} \/ urls = <<>>

\* The as_completed loop has yielded every future; the with block ends
\* (executor.shutdown(wait=True)), then save_results and generate_report.
LoopDone == yielded = 1..Len(urls)

Finalize ==
    /\ main = "wait"
    /\ LoopDone
    /\ \A u \in 1..Len(urls) : pc[u] = "returned"
    /\ report' = [total_urls |-> Len(urls),
                  successful_scrapes |-> Len(results),
                  failed_scrapes |-> Len(failed_urls)]
    /\ main' = "done"
    /\ UNCHANGED <<run, settings, urls, results, failed_urls, pc, attempt, e, timer,
                   future, preDone, waiterQ, yielded, mtimer, sinceIssue,
                   tries, fails, last, sleeps,
                   completed>>

\* One unit of time passes: every running time.sleep comes one unit closer
\* to its end.
Tick ==
    /\ \/ \E u \in Units : timer[u] > 0
       \/ mtimer > 0
       \/ (sinceIssue >= 0 /\ sinceIssue < settings.delay_between_requests)
    /\ timer' = [u \in Units |-> IF timer[u] > 0 THEN timer[u] - 1 ELSE 0]
    /\ mtimer' = IF mtimer > 0 THEN mtimer - 1 ELSE 0
    /\ sinceIssue' = IF sinceIssue >= 0 /\ sinceIssue < settings.delay_between_requests
                     THEN sinceIssue + 1 ELSE sinceIssue
    /\ UNCHANGED <<run, settings, urls, results, failed_urls, pc, attempt, e, future,
                   main, preDone, waiterQ, yielded, report, tries, fails, last, sleeps,
                   completed>>

Next ==
    \/ PoolRejected
    \/ Submit
    \/ \E u \in Units : Start(u)
    \/ \E u \in Units, env \in Env \cup {InvalidUrl} : Respond(u, env)
    \/ \E u \in Units : Record(u)
    \/ \E u \in Units : Wake(u)
    \/ AsCompleted
    \/ \E u \in Units : Collect(u)
    \/ DelayDone
    \/ Finalize
    \/ Tick

Spec == Init /\ [][Next]_vars

SpecMalformed == InitMalformed /\ [][Next]_vars

\* The thread of scrape_all_urls keeps running while it has a step to take.
MainThread ==
    \/ PoolRejected
    \/ Submit
    \/ AsCompleted
    \/ \E u \in Units : Collect(u)
    \/ DelayDone
    \/ Finalize

\* The pool thread that serves unit u keeps running; every session.get ends
\* (a response, a transport error, or the timeout of line 73).
Worker(u) ==
    \/ Start(u)
    \/ \E env \in Env \cup {InvalidUrl} : Respond(u, env)
    \/ Record(u)
    \/ Wake(u)

\* Fair scheduling of the threads, and time that passes.
Fairness ==
    /\ WF_vars(MainThread)
    /\ \A u \in Units : WF_vars(Worker(u))
    /\ WF_vars(Tick)

FairSpec == Init /\ [][Next]_vars /\ Fairness

\* The program has no cancellation of its own; the signal it can receive is
\* a KeyboardInterrupt, raised in the thread of scrape_all_urls. It is no
\* Exception, so the handler of line 149 lets it through: control leaves the
\* loop for the exit of the with block.
Interrupt ==
    /\ main \in {"submit", "wait", "delay"}
    /\ PoolCreated
    /\ main' = "interrupted"
    /\ UNCHANGED <<run, settings, urls, results, failed_urls, pc, attempt, e, timer,
                   future, preDone, waiterQ, yielded, mtimer, report, sinceIssue,
                   tries, fails, last, sleeps, completed>>

\* The exit of the with block is executor.shutdown(wait=True): it returns
\* once every submitted work item has run to its end; then the interrupt
\* leaves scrape_all_urls, past save_results and generate_report.
InterruptExit ==
    /\ main = "interrupted"
    /\ \A u \in 1..Len(urls) : pc[u] \in {"unsubmitted", "returned"}
    /\ main' = "aborted"
    /\ UNCHANGED <<run, settings, urls, results, failed_urls, pc, attempt, e, timer,
                   future, preDone, waiterQ, yielded, mtimer, report, sinceIssue,
                   tries, fails, last, sleeps, completed>>

\* Variant: scrape_all_urls starting from an empty list.
ClearedAtEntry(seq) == <<>>

\* scrape_all_urls assigns neither self.results nor self.failed_urls: the
\* lists of __init__ (lines 19-20) go on into the next call.
CarriedOver(seq) == seq

\* scrape_all_urls is called again on the instance after it returned: a new
\* pool, new futures and a new as_completed round over the same self.urls.
Rerun ==
    /\ main = "done"
    /\ run < MaxRuns
    /\ run' = run + 1
    /\ results' = CarriedOver(results)
    /\ failed_urls' = CarriedOver(failed_urls)
    /\ pc' = [u \in Units |-> "unsubmitted"]
    /\ attempt' = [u \in Units |-> 0]
    /\ e' = [u \in Units |-> "none"]
    /\ timer' = [u \in Units |-> 0]
    /\ future' = [u \in Units |-> [state |-> "NONE", result |-> "none"]]
    /\ main' = "submit"
    /\ preDone' = {}
    /\ waiterQ' = <<>>
    /\ yielded' = {}
    /\ mtimer' = 0
    /\ sinceIssue' = -1
    /\ tries' = [u \in Units |-> 0]
    /\ fails' = [u \in Units |-> 0]
    /\ last' = [u \in Units |-> <<>>]
    /\ sleeps' = [u \in Units |-> <<>>]
    /\ completed' = <<>>
    /\ UNCHANGED <<settings, urls, report>>

NextRerun ==
    \/ Next
    \/ Rerun

SpecRerun == Init /\ [][NextRerun]_vars

NextCancel ==
    \/ Next
    \/ Interrupt
    \/ InterruptExit

SpecCancel == Init /\ [][NextCancel]_vars

\* ------------------------------------------------------------------ claims

Batch == 1..Len(urls)
Count(seq, u) == Cardinality({ i \in 1..Len(seq) : seq[i].url = u })
Finalized == main = "done"
Exhausted(u) == pc[u] = "returned" /\ future[u].result.kind = "None"
Succeeded(u) == pc[u] = "returned" /\ future[u].result.kind = "data"
Threw(u) == pc[u] = "returned" /\ future[u].result.kind = "exception"

\* C1: once scrape_all_urls has reached save_results / generate_report,
\* len(results) + len(failed_urls) equals the batch size and every unit of
\* the batch has exactly one entry, in exactly one of the two lists.
C1_EveryUrlOnce ==
    Finalized =>
        /\ Len(results) + Len(failed_urls) = Len(urls)
        /\ report.successful_scrapes + report.failed_scrapes = report.total_urls
        /\ \A u \in Batch : Count(results, u) + Count(failed_urls, u) = 1
        /\ \A i \in 1..Len(results) : results[i].url \in Batch
        /\ \A i \in 1..Len(failed_urls) : failed_urls[i].url \in Batch

\* C1 witness: a finalized batch of full size that mixes a success with a
\* unit that exhausted its retries or threw.
C1_Witness ==
    /\ Finalized
    /\ Len(urls) = MaxUrls
    /\ \E u, v \in Batch : Succeeded(u) /\ (Exhausted(v) \/ Threw(v))

\* C2 as stated: a response with an error status (>= 400) ends the unit as a
\* success with that status code, without a further attempt or a sleep.
HttpErrorResponse(env) == env # <<>> /\ ~env.transport /\ env.status >= 400
GoodResponse(env) == env # <<>> /\ ~env.transport /\ env.status < 400 /\ ~env.saveFails

Issues(u) == pc[u] # "get" /\ pc'[u] = "get"

C3_IssuesSpaced ==
    [][\A u \in Units :
          Issues(u) => \/ sinceIssue = -1
                       \/ sinceIssue >= settings.delay_between_requests]_vars

\* C4: the units inside session.get never outnumber concurrent_requests.
C4_BoundedIO == Cardinality(InIO) <= settings.concurrent_requests

\* C4 witness: the pool is full of units inside session.get while another
\* unit is queued behind them.
C4_Witness ==
    /\ settings.concurrent_requests >= 1
    /\ Cardinality(InIO) = settings.concurrent_requests
    /\ \E u \in Batch : pc[u] = "queued"

\* The entry of unit u in failed_urls, when it has exactly one.
FailureOf(u) == CHOOSE f \in { failed_urls[i] : i \in 1..Len(failed_urls) } : f.url = u
AllAttemptsFailed(u) == tries[u] > 0 /\ fails[u] = tries[u]

\* C5: a unit whose every attempt ended in the RequestException handler made
\* exactly max_retries attempts and slept max_retries - 1 times, never after
\* the last attempt; once it has returned, failed_urls holds exactly one
\* entry for it, with the error of the last attempt.
C5_ExhaustedRetries ==
    \A u \in Units :
        /\ pc[u] = "sleep" => tries[u] < settings.max_retries
        /\ (AllAttemptsFailed(u) /\ pc[u] \in {"record", "returned"}) =>
              /\ tries[u] = settings.max_retries
              /\ Len(sleeps[u]) = settings.max_retries - 1
              /\ timer[u] = 0
              /\ pc[u] = "record" => Count(failed_urls, u) = 0
              /\ pc[u] = "returned" =>
                    /\ Exhausted(u)
                    /\ Count(results, u) = 0
                    /\ Count(failed_urls, u) = 1
                    /\ FailureOf(u).error = ErrorOf(last[u])

\* C5 witness: with max_retries = 3, a unit whose three attempts all failed,
\* the last one by a timeout, recorded with that timeout.
C5_Witness ==
    \E u \in Units :
        /\ settings.max_retries = DefaultMaxRetries
        /\ Exhausted(u)
        /\ tries[u] = DefaultMaxRetries
        /\ last[u].transport
        /\ Count(failed_urls, u) = 1
        /\ FailureOf(u).error = "timeout"

\* C6: a unit whose attempt k met no exception after k - 1 failed attempts
\* is a success: k attempts, k - 1 sleeps, no attempt after it, no entry in
\* failed_urls, and one entry in results once the loop has handled it.
C6_SuccessAfterRetries ==
    \A u \in Units :
        GoodResponse(last[u]) =>
            /\ Succeeded(u)
            /\ tries[u] = fails[u] + 1
            /\ tries[u] <= settings.max_retries
            /\ Len(sleeps[u]) = tries[u] - 1
            /\ timer[u] = 0
            /\ Count(failed_urls, u) = 0
            /\ Count(results, u) = IF u \in yielded THEN 1 ELSE 0

\* C6 witness: the spec's example, success on attempt 3 of 3 after 2 sleeps.
C6_Witness ==
    \E u \in Units :
        /\ settings.max_retries = 3
        /\ Succeeded(u)
        /\ tries[u] = 3
        /\ fails[u] = 2
        /\ Len(sleeps[u]) = 2
        /\ Count(results, u) = 1

\* C7: the k-th backoff sleep of a unit follows its k-th failed attempt and
\* lasts 1 * 2^(k-1): positive, and longer than the sleep before it.
C7_ExponentialBackoff ==
    \A u \in Units :
        /\ \A k \in 1..Len(sleeps[u]) :
              /\ sleeps[u][k] = 1 * 2^(k - 1)
              /\ sleeps[u][k] > 0
              /\ k > 1 => sleeps[u][k] > sleeps[u][k - 1]
        /\ pc[u] = "sleep" =>
              /\ Len(sleeps[u]) = tries[u]
              /\ Len(sleeps[u]) = fails[u]
              /\ timer[u] <= sleeps[u][Len(sleeps[u])]

\* C7 witness: a unit at the start of its second sleep, of 2 seconds.
C7_Witness ==
    \E u \in Units :
        /\ pc[u] = "sleep"
        /\ sleeps[u] = <<1, 2>>
        /\ timer[u] = 2

\* C8: once save_results / generate_report has been reached, every unit of
\* the batch has returned, its future has been yielded by as_completed, and
\* its outcome is in results or failed_urls.
C8_FinalizeAfterAll ==
    (Finalized \/ report # <<>>) =>
        \A u \in Batch :
            /\ pc[u] = "returned"
            /\ Done(u)
            /\ u \in yielded
            /\ Succeeded(u) => Count(results, u) = 1
            /\ (Exhausted(u) \/ Threw(u)) => Count(failed_urls, u) = 1

\* C8 witness: a finalized full batch with one unit that needed every attempt.
C8_Witness ==
    /\ Finalized
    /\ Len(urls) = MaxUrls
    /\ \E u \in Batch : tries[u] = settings.max_retries /\ tries[u] > 1

\* C9: no exception of a unit leaves scrape_all_urls (the only exception that
\* does is the pool's, before anything is submitted); a unit that is running
\* can always take its next step, and a queued one can start as soon as a
\* pool thread is free, whatever became of the other units; at the end each
\* unit is recorded by what its own last attempt met.
OwnOutcome(u) ==
    CASE Raised(last[u]) = "none" ->
           /\ Count(results, u) = 1 /\ Count(failed_urls, u) = 0
      [] Raised(last[u]) = "Exception" ->
           /\ Count(results, u) = 0 /\ Count(failed_urls, u) = 1
           /\ FailureOf(u).error = ErrorOf(last[u])
      [] Raised(last[u]) = "RequestException" ->
           /\ Count(results, u) = 0 /\ Count(failed_urls, u) = 1
           /\ FailureOf(u).error = ErrorOf(last[u])
           /\ tries[u] = settings.max_retries

C9_FailuresContained ==
    /\ main = "raised" => \A u \in Units : pc[u] = "unsubmitted"
    /\ \A u \in Batch :
          /\ pc[u] = "get" => \A env \in Env : ENABLED Respond(u, env)
          /\ pc[u] = "record" => ENABLED Record(u)
          /\ (pc[u] = "sleep" /\ timer[u] = 0) => ENABLED Wake(u)
          /\ (pc[u] = "sleep" /\ timer[u] > 0) => ENABLED Tick
          /\ (/\ pc[u] = "queued"
              /\ ThreadFree
              /\ \A v \in 1..(u - 1) : pc[v] # "queued") => ENABLED Start(u)
    /\ Finalized => \A u \in Batch : last[u] # <<>> /\ OwnOutcome(u)

\* C9 witness: a finalized batch where one unit exhausted its retries and
\* another succeeded on a retry of its own.
C9_Witness ==
    /\ Finalized
    /\ \E u, v \in Batch :
          /\ Exhausted(u)
          /\ Succeeded(v)
          /\ tries[v] >= 2

\* C10: at most one thread at a time is inside a statement that appends to
\* results or failed_urls.
C10_RecordExclusive == Cardinality({ u \in Units : pc[u] = "record" }) <= 1

\* C11 as stated: every entry of failed_urls belongs to a unit that made
\* exactly max_retries attempts, all of which failed.
C11_OnlyExhaustedFailures ==
    \A i \in 1..Len(failed_urls) :
        /\ tries[failed_urls[i].url] = settings.max_retries
        /\ fails[failed_urls[i].url] = settings.max_retries

\* C11 as amended: every entry of failed_urls belongs either to a unit that
\* made exactly max_retries attempts, all ended in the RequestException
\* handler (recorded by scrape_url itself), or to a unit whose latest attempt
\* raised another exception, after at most max_retries attempts and without
\* retry (recorded by the as_completed loop).
C11_ExhaustedOrThrown ==
    \A i \in 1..Len(failed_urls) :
        LET u == failed_urls[i].url IN
        \/ /\ Exhausted(u)
           /\ tries[u] = settings.max_retries
           /\ fails[u] = settings.max_retries
           /\ failed_urls[i].error \in {"timeout", "http_error"}
        \/ /\ Threw(u)
           /\ u \in yielded
           /\ tries[u] <= settings.max_retries
           /\ fails[u] = tries[u] - 1
           /\ Raised(last[u]) = "Exception"
           /\ failed_urls[i].error = "os_error"

\* C11 witness: with max_retries = 3, failed_urls holds a unit that threw on
\* its first attempt, and another that exhausted its retries.
C11_Witness ==
    /\ settings.max_retries = DefaultMaxRetries
    /\ \E i, j \in 1..Len(failed_urls) :
          /\ Threw(failed_urls[i].url) /\ tries[failed_urls[i].url] = 1
          /\ Exhausted(failed_urls[j].url)

\* C12: a batch that holds a malformed url is refused at the entry of
\* scrape_all_urls, before any worker starts: no session.get is issued and
\* no backoff sleep is taken for any url, and the run is not finalized.
HasMalformed == \E i \in 1..Len(urls) : urls[i] = "malformed"

C12_MalformedFailsFast ==
    HasMalformed =>
        /\ \A u \in Units : tries[u] = 0 /\ sleeps[u] = <<>>
        /\ \A u \in Units : pc[u] \notin {"get", "sleep", "record", "returned"}
        /\ report = <<>>

\* C13: with concurrent_requests <= 0 nothing is ever submitted or attempted,
\* results and failed_urls stay as they were, and no report is written: the
\* call ends with the pool's exception.
C13_NoPoolNoRun ==
    settings.concurrent_requests <= 0 =>
        /\ main \in {"submit", "raised"}
        /\ \A u \in Units :
              /\ pc[u] = "unsubmitted"
              /\ future[u].state = "NONE"
              /\ tries[u] = 0
        /\ results = <<>>
        /\ failed_urls = <<>>
        /\ report = <<>>

\* C13 witness: the exception has left scrape_all_urls, for a full batch.
C13_Witness ==
    /\ settings.concurrent_requests <= 0
    /\ Len(urls) = MaxUrls
    /\ main = "raised"

\* C17: the units that have entered scrape_url and not yet returned from it,
\* those in backoff sleep included, never number more than concurrent_requests.
C17_StartedNotTerminalBounded ==
    Cardinality({ u \in Units : tries[u] >= 1 /\ pc[u] # "returned" })
        <= settings.concurrent_requests

\* C17 witness: every pool thread is held by a unit in backoff sleep while
\* another unit of the batch waits in the queue.
C17_Witness ==
    /\ settings.concurrent_requests >= 1
    /\ Cardinality({ u \in Units : pc[u] = "sleep" /\ timer[u] > 0 }) = settings.concurrent_requests
    /\ \E u \in Batch : pc[u] = "queued" /\ tries[u] = 0

\* C16: a unit enters scrape_url from the queue only once, with no attempt
\* made before; once submitted it is never submitted or queued again; once it
\* has returned, it stays returned and makes no further attempt; and at
\* finalization every unit of the batch has had its one invocation.
C16_StepOnce ==
    \A u \in Units :
        /\ (pc[u] = "queued" /\ pc'[u] = "get") => (tries[u] = 0 /\ attempt'[u] = 0)
        /\ pc[u] # "unsubmitted" => pc'[u] # "unsubmitted"
        /\ pc[u] \notin {"unsubmitted", "queued"} => pc'[u] # "queued"
        /\ pc[u] = "returned" => (pc'[u] = "returned" /\ tries'[u] = tries[u])

C16_SubmittedExactlyOnce ==
    /\ [](Finalized => \A u \in Batch : pc[u] = "returned" /\ tries[u] >= 1)
    /\ [][C16_StepOnce]_vars

\* C16 witness: a finalized full batch in which every unit went through all
\* of several attempts inside its one invocation.
C16_Witness ==
    /\ Finalized
    /\ Len(urls) = MaxUrls
    /\ settings.max_retries >= 2
    /\ \A u \in Batch : pc[u] = "returned" /\ tries[u] = settings.max_retries

\* C19: with a pool that could be created, scrape_all_urls reaches
\* generate_report, with every unit of the batch returned by then, whatever
\* the outcomes of the units were.
C19_RunIsTotal ==
    (settings.concurrent_requests >= 1) ~>
        (Finalized /\ report # <<>> /\ \A u \in Batch : pc[u] = "returned")

\* C19 witness: the run is finalized although every unit of a full batch
\* failed, one of them by an exception that left scrape_url.
C19_Witness ==
    /\ Finalized
    /\ Len(urls) = MaxUrls
    /\ results = <<>>
    /\ \E u \in Batch : Threw(u)

\* C15: whenever the oldest queued unit finds fewer than concurrent_requests
\* units inside scrape_url, a pool thread can take it at once, whatever the
\* collecting loop and the sleeping units are doing; and every unit of a
\* batch whose pool was created makes its first attempt in the end.
C15_CanStartNow ==
    \A u \in Batch :
        ( /\ pc[u] = "queued"
          /\ \A v \in 1..(u - 1) : pc[v] # "queued"
          /\ Cardinality({ w \in Units : pc[w] \in {"get", "record", "sleep"} })
                 < settings.concurrent_requests )
        => ENABLED Start(u)

C15_WorkConserving ==
    /\ []C15_CanStartNow
    /\ \A u \in Units :
          (u \in Batch /\ settings.concurrent_requests >= 1) ~> (tries[u] >= 1)

\* C15 witness: a queued unit and a free pool thread while the collecting
\* loop is in its delay after a success.
C15_Witness ==
    /\ main = "delay"
    /\ mtimer > 0
    /\ \E u \in Batch : pc[u] = "queued"
    /\ Cardinality(Running) < settings.concurrent_requests

\* Position of unit u in the order of completion.
CompletedAt(u) == CHOOSE i \in 1..Len(completed) : completed[i] = u
CompletedBefore(u, v) == CompletedAt(u) < CompletedAt(v)

Cancelled == main \in {"interrupted", "aborted"}

\* C14: once the run is cancelled no unit issues a session.get and no unit
\* leaves the queue; and when the cancelled run ends, a report is written
\* whose successes and failures add up to the batch, every unit that made no
\* attempt being in failed_urls with the error "cancelled".
C14_StepAfterCancel ==
    /\ Cancelled =>
          \A u \in Units : ~Issues(u) /\ ~(pc[u] = "queued" /\ pc'[u] # "queued")
    /\ main' = "aborted" =>
          /\ report' # <<>>
          /\ Len(results') + Len(failed_urls') = Len(urls')
          /\ \A u \in 1..Len(urls') :
                tries'[u] = 0 =>
                    \E i \in 1..Len(failed_urls') :
                        failed_urls'[i] = [url |-> u, error |-> "cancelled"]

C14_CancelStopsWork == [][C14_StepAfterCancel]_vars

IsPrefix(s, t) == Len(s) <= Len(t) /\ \A i \in 1..Len(s) : t[i] = s[i]

\* C20 as stated, the part about the counts: the report of a second or later
\* call counts more successes and failures than there are urls.
C20_LaterRunExceedsTotal ==
    (Finalized /\ run >= 2) =>
        report.successful_scrapes + report.failed_scrapes > report.total_urls

\* C20 amended: no step removes, reorders or rewrites an entry of results or
\* failed_urls, a further call of scrape_all_urls included; and the report of
\* the k-th call counts k times total_urls successes and failures, which is
\* more than total_urls from the second call on unless the batch is empty.
C20_StepAppends ==
    /\ IsPrefix(results, results')
    /\ IsPrefix(failed_urls, failed_urls')

C20_AppendOnly ==
    /\ [][C20_StepAppends]_vars
    /\ [](Finalized =>
            /\ report.total_urls = Len(urls)
            /\ report.successful_scrapes + report.failed_scrapes = run * Len(urls)
            /\ Len(results) + Len(failed_urls) = run * Len(urls))

\* C20 witness: a second call has finalized a full batch, and both
\* collections hold entries of both calls.
C20_Witness ==
    /\ Finalized
    /\ run = 2
    /\ Len(urls) = MaxUrls
    /\ Len(results) >= 2
    /\ Len(failed_urls) >= 2
    /\ report.successful_scrapes + report.failed_scrapes > report.total_urls

====
